---- MODULE Spec2Model ----
(***************************************************************************)
(* The file-based room lock of agents/room_session_manager.py              *)
(* (RoomSessionManager): worker tasks, grouped in OS processes, contend    *)
(* for per-room lock files through flock(2).  The model keeps the POSIX    *)
(* objects the code manipulates: directory entries, inodes with their      *)
(* content, open file descriptions and the advisory lock of each inode.    *)
(***************************************************************************)
EXTENDS Integers, Sequences, FiniteSets, TLC

(* ------------------------------ bounds --------------------------------- *)
MaxTime == 3          \* the wall clock runs over 1..MaxTime
MaxTimeout == 1       \* acquire timeouts range over 1..MaxTimeout ticks
TicksPerHour == 1     \* clock ticks in one hour
MaxInodes == 2        \* inodes of the lock directory's filesystem
MaxCalls == 2         \* calls that return before a race stops taking new ones

(* --------------------------- program constants ------------------------- *)
ExpiryHours == 1      \* timedelta(hours=1)
LockTTL == ExpiryHours * TicksPerHour
DefaultExpiresAt == "1970-01-01"   \* lock_info.get('expires_at', '1970-01-01')
max_heartbeats == 60  \* iterations of the session monitoring loop
HeartbeatSeconds == 5 \* asyncio.sleep(5) in each iteration
EmptyRoomLimit == 3   \* consecutive checks without a user that end the session

(* ------------------------------ universe ------------------------------- *)
Procs == {"p1", "p2"}
Tasks == {"t1", "t2", "t3"}
ProcOf == [t \in Tasks |-> IF t = "t3" THEN "p2" ELSE "p1"]
PidOf == [p \in Procs |-> IF p = "p1" THEN 11 ELSE 12]
ForeignPids == {21}   \* live processes of another user: os.kill gives EPERM
DeadPids == {31}      \* pids no process has: os.kill gives ESRCH
JobOf == [t \in Tasks |-> IF t = "t1" THEN "job1" ELSE IF t = "t2" THEN "job2" ELSE "job3"]
UserOf == [t \in Tasks |-> IF t = "t2" THEN "u2" ELSE "u1"]
\* room names are strings, kept as sequences of characters
RoomAB == <<"a", "/", "b">>
RoomA_B == <<"a", ":", "b">>
RoomC == <<"c">>
Rooms == {RoomAB, RoomA_B, RoomC}
Timeouts == 1..MaxTimeout
Inodes == 1..MaxInodes
\* an open file description is named after the call that opened it; a task
\* can have the handle it registered and the one of a new call open at once
Slots == {1, 2}
NoHandle == <<>>
Handles == {<<t, UserOf[t], r, k>> : t \in Tasks, r \in Rooms, k \in Slots}

(* ----------------------- names, keys and time strings ------------------ *)
ReplaceChar(s, old, new) == [i \in DOMAIN s |-> IF s[i] = old THEN new ELSE s[i]]

\* room_name.replace("/", "_").replace(":", "_")
SafeRoomName(room_name) == ReplaceChar(ReplaceChar(room_name, "/", "_"), ":", "_")

\* one lock file for every room (for measuring what the properties detect)
OneLockFilePath(room_name) == <<"room_", ".lock">>

\* self.lock_dir / f"room_{safe_room_name}.lock"
get_lock_file_path(room_name) == <<"room_">> \o SafeRoomName(room_name) \o <<".lock">>

Paths == {get_lock_file_path(r) : r \in Rooms}

\* f"{user_id}:{room_name}"
SessionKey(user_id, room_name) == <<user_id, ":">> \o room_name

\* datetime.isoformat(): the clock value as text
IsoFormat(t) == ToString(t)

\* the strings datetime.fromisoformat accepts
IsIso(s) == s = DefaultExpiresAt \/ \E t \in 0..(MaxTime + LockTTL + 1) : ToString(t) = s

\* a parse that puts every date in the future (for measuring what the properties detect)
FromIsoFuture(s) == MaxTime + LockTTL + 1

\* datetime.fromisoformat(s); the epoch date lies before every clock value
FromIso(s) ==
    IF s = DefaultExpiresAt THEN 0
    ELSE CHOOSE t \in 0..(MaxTime + LockTTL + 1) : ToString(t) = s

(* ------------------------------ file content --------------------------- *)
\* kind: "empty" (st_size = 0), "blank" (whitespace only), "garbage" (not JSON),
\* "nonobject" (JSON, not a dict), "object" (a dict, its items in fields)
EmptyContent == [kind |-> "empty", fields |-> <<>>]

\* session_info of acquire_room_lock; the clock may advance between the two
\* datetime.now() reads
SessionInfo(room_name, job_id, user_id, pid, t1, t2) ==
    [room_name |-> room_name, job_id |-> job_id, user_id |-> user_id, pid |-> pid,
     acquired_at |-> IsoFormat(t1), expires_at |-> IsoFormat(t2 + LockTTL)]

\* json.dumps(session_info, indent=2) as the bytes of the file
JsonDump(info) == [kind |-> "object", fields |-> info]

\* an encoder that leaves expires_at out (for measuring what the properties detect)
JsonTextWithoutExpiry(info) ==
    [k \in (DOMAIN info) \ {"expires_at"} |->
        IF k = "pid" THEN [type |-> "number", text |-> ToString(info[k])]
        ELSE [type |-> "string", text |-> info[k]]]

\* the text json.dumps produces, item by item: os.getpid() is an int and is
\* written as a decimal number, every other value is a str and is quoted
JsonText(info) ==
    [k \in DOMAIN info |->
        IF k = "pid" THEN [type |-> "number", text |-> ToString(info[k])]
        ELSE [type |-> "string", text |-> info[k]]]

\* the pids a record can carry
Pids == {PidOf[p] : p \in Procs} \cup ForeignPids \cup DeadPids

\* json.loads: a number token becomes an int, a quoted token a str
JsonLoads(text) ==
    [k \in DOMAIN text |->
        IF text[k].type = "number" THEN CHOOSE n \in Pids : ToString(n) = text[k].text
        ELSE text[k].text]

(* ------------------------------ filesystem ----------------------------- *)
\* f = [dir, content, fd, flock]: path -> inode (0: no entry), inode -> content,
\* handle -> inode (0: closed), inode -> handle holding LOCK_EX (0: unlocked)
Referenced(f, i) == (\E q \in Paths : f.dir[q] = i) \/ (\E h \in Handles : f.fd[h] = i)

\* an inode with no link and no open description is freed
Reclaim(f) ==
    [f EXCEPT !.content = [i \in Inodes |-> IF Referenced(f, i) THEN f.content[i] ELSE EmptyContent],
              !.flock = [i \in Inodes |-> IF Referenced(f, i) THEN f.flock[i] ELSE NoHandle]]

FreeInodes(f) == {i \in Inodes : ~Referenced(f, i)}
Lowest(S) == CHOOSE x \in S : \A y \in S : x <= y

\* a close that closes nothing (for measuring what the properties detect)
CloseNothing(f, h) == f

\* close(2): the description goes away and with it the lock it holds
CloseHandle(f, h) ==
    IF h = NoHandle \/ f.fd[h] = 0 THEN f
    ELSE LET i == f.fd[h] IN
         Reclaim([f EXCEPT !.fd[h] = 0, !.flock[i] = IF @ = h THEN NoHandle ELSE @])

\* an unlink that removes nothing (for measuring what the properties detect)
UnlinkNothing(f, path) == f

\* Path.unlink()
Unlink(f, path) == Reclaim([f EXCEPT !.dir[path] = 0])

PathExists(f, path) == f.dir[path] # 0

\* the content a reader of path sees
ReadPath(f, path) == f.content[f.dir[path]]

\* the name the next open() of task t for (user_id, room_name) gets
FreeSlots(f, t, user_id, room_name) == {k \in Slots : f.fd[<<t, user_id, room_name, k>>] = 0}
NewHandle(f, t, user_id, room_name) == <<t, user_id, room_name, Lowest(FreeSlots(f, t, user_id, room_name))>>

\* open(path, 'w') can succeed: the file is there or an inode is free for it
CanOpen(f, path) == PathExists(f, path) \/ FreeInodes(f) # {}

\* open(path, 'w'): O_CREAT | O_TRUNC, a new open file description
OpenW(f, path, h) ==
    LET i == IF PathExists(f, path) THEN f.dir[path] ELSE Lowest(FreeInodes(f))
    IN [f EXCEPT !.dir[path] = i, !.content[i] = EmptyContent, !.fd[h] = i]

\* a flock that always finds the file locked (for measuring what the properties detect)
FlockAlwaysBusy(f, h) == FALSE

\* a flock that excludes nobody (for measuring what the properties detect)
FlockNeverBlocks(f, h) == TRUE

\* fcntl.flock(fd, LOCK_EX | LOCK_NB) succeeds, else BlockingIOError
FlockFree(f, h) == f.flock[f.fd[h]] \in {NoHandle, h}

Flock(f, h) == [f EXCEPT !.flock[f.fd[h]] = h]

\* seek(0); truncate(); write(json_data); flush(); os.fsync()
WriteHandle(f, h, data) == [f EXCEPT !.content[f.fd[h]] = data]

(* -------------------------------- state -------------------------------- *)
VARIABLES
    now,             \* time.time() / datetime.now()
    alive,           \* which processes run
    dir, content, fd_inode, flock,   \* the lock directory's filesystem
    local_sessions,  \* per process: session_key -> session_info
    lock_handles,    \* per process: session_key -> handle
    call,            \* per task: the acquire_room_lock call in progress
    session,         \* per task: the position of its session runtime (entrypoint)
    last             \* history: the call that returned last, its result and log line

vars == <<now, alive, dir, content, fd_inode, flock, local_sessions, lock_handles, call, session,
          last>>

FS == [dir |-> dir, content |-> content, fd |-> fd_inode, flock |-> flock]

SetFS(f) ==
    /\ dir' = f.dir
    /\ content' = f.content
    /\ fd_inode' = f.fd
    /\ flock' = f.flock

Idle == [pc |-> "idle", room_name |-> <<>>, user_id |-> "", timeout |-> 0,
         start_time |-> 0, fh |-> NoHandle, tried |-> FALSE, reentrant |-> FALSE]

\* the history variable is kept only by the specifications that start it at
\* NoCall; started at Unobserved it stays there
NoPlan == [a |-> "", b |-> "", room_name |-> <<>>]

NoCall == [op |-> "none", task |-> "", room_name |-> <<>>, user_id |-> "",
           ret |-> FALSE, log |-> "", seen |-> <<>>, cleaned |-> 0, corrupted |-> 0,
           found |-> "", plan |-> NoPlan, calls |-> 0]

Unobserved == [NoCall EXCEPT !.op = "off"]

\* what a function without a return statement returns
None == <<>>

Returned(op, t, room_name, user_id, ret, log, seen) ==
    IF last = Unobserved THEN last
    ELSE [op |-> op, task |-> t, room_name |-> room_name, user_id |-> user_id,
          ret |-> ret, log |-> log, seen |-> seen, cleaned |-> 0, corrupted |-> 0,
          found |-> "", plan |-> last.plan, calls |-> IF last.plan = NoPlan THEN 0 ELSE last.calls + 1]

\* a del that deletes nothing (for measuring what the properties detect)
DeleteNothing(m, k) == m

Without(m, k) == [x \in (DOMAIN m) \ {k} |-> m[x]]
With(m, k, v) == [x \in (DOMAIN m) \cup {k} |-> IF x = k THEN v ELSE m[x]]

\* a task that runs no session
NoSession == [pc |-> "none", room_name |-> <<>>, held |-> FALSE, connected |-> FALSE,
              releases |-> 0, seen |-> 0, heartbeat_count |-> 0, empty_room_count |-> 0]

\* RoomSessionManager() in every process, over an empty lock directory
InitManagers ==
    /\ now = 1
    /\ alive = [p \in Procs |-> TRUE]
    /\ fd_inode = [h \in Handles |-> 0]
    /\ flock = [i \in Inodes |-> NoHandle]
    /\ local_sessions = [p \in Procs |-> <<>>]
    /\ lock_handles = [p \in Procs |-> <<>>]
    /\ call = [t \in Tasks |-> Idle]
    /\ session = [t \in Tasks |-> NoSession]

EmptyDir ==
    /\ dir = [q \in Paths |-> 0]
    /\ content = [i \in Inodes |-> EmptyContent]

Init == InitManagers /\ EmptyDir /\ last = Unobserved

InitObserved == InitManagers /\ EmptyDir /\ last = NoCall

(* ------------------------------ release -------------------------------- *)
\* a release that releases nothing (for measuring what the properties detect)
ReleaseNothing(r, f, room_name, user_id) ==
    [sessions |-> r.sessions, handles |-> r.handles, fs |-> f]

\* a release that forgets to close its handle (for measuring what the properties detect)
ReleaseLeaksHandle(r, f, room_name, user_id) ==
    LET key == SessionKey(user_id, room_name)
        path == get_lock_file_path(room_name)
    IN [sessions |-> IF key \in DOMAIN r.sessions THEN Without(r.sessions, key) ELSE r.sessions,
        handles |-> IF key \in DOMAIN r.handles THEN Without(r.handles, key) ELSE r.handles,
        fs |-> IF PathExists(f, path) THEN Unlink(f, path) ELSE f]

\* release_room_lock when Path.unlink raises: the error is logged and the
\* file stays
ReleaseUnlinkError(r, f, room_name, user_id) ==
    LET key == SessionKey(user_id, room_name)
        held == key \in DOMAIN r.handles
    IN [sessions |-> IF key \in DOMAIN r.sessions THEN Without(r.sessions, key) ELSE r.sessions,
        handles |-> IF held THEN Without(r.handles, key) ELSE r.handles,
        fs |-> IF held THEN CloseHandle(f, r.handles[key]) ELSE f]

\* release_room_lock on a process's registries r = [sessions, handles] and
\* the filesystem f; gives the new [sessions, handles, fs]
ReleaseEffect(r, f, room_name, user_id) ==
    LET key == SessionKey(user_id, room_name)
        path == get_lock_file_path(room_name)
        held == key \in DOMAIN r.handles
        f1 == IF held THEN CloseHandle(f, r.handles[key]) ELSE f
        f2 == IF PathExists(f1, path) THEN Unlink(f1, path) ELSE f1
    IN [sessions |-> IF key \in DOMAIN r.sessions THEN Without(r.sessions, key) ELSE r.sessions,
        handles |-> IF held THEN Without(r.handles, key) ELSE r.handles,
        fs |-> f2]

Registry(p) == [sessions |-> local_sessions[p], handles |-> lock_handles[p]]

release_room_lock(t, room_name, user_id) ==
    LET p == ProcOf[t]
        out == ReleaseEffect(Registry(p), FS, room_name, user_id)
    IN /\ alive[p]
       /\ call[t].pc = "idle"
       /\ local_sessions' = [local_sessions EXCEPT ![p] = out.sessions]
       /\ lock_handles' = [lock_handles EXCEPT ![p] = out.handles]
       /\ SetFS(out.fs)
       /\ last' = Returned("release", t, room_name, user_id, None,
                           IF SessionKey(user_id, room_name) \in DOMAIN lock_handles[p]
                           THEN "released" ELSE "not_held", <<>>)
       /\ UNCHANGED <<now, alive, call, session>>

\* release_room_lock in a lock directory that refuses the unlink
release_unlink_error(t, room_name, user_id) ==
    LET p == ProcOf[t]
        out == ReleaseUnlinkError(Registry(p), FS, room_name, user_id)
    IN /\ alive[p]
       /\ call[t].pc = "idle"
       /\ PathExists(out.fs, get_lock_file_path(room_name))
       /\ local_sessions' = [local_sessions EXCEPT ![p] = out.sessions]
       /\ lock_handles' = [lock_handles EXCEPT ![p] = out.handles]
       /\ SetFS(out.fs)
       /\ last' = Returned("release", t, room_name, user_id, None, "unlink_error", <<>>)
       /\ UNCHANGED <<now, alive, call, session>>

(* ------------------------------ acquire -------------------------------- *)
\* acquire_room_lock up to the polling loop: the re-entry check, the open
\* and start_time.  open_fails stands for an environment fault of open().
AcquireOpen(t, room_name, user_id, timeout, open_fails) ==
    LET p == ProcOf[t]
        key == SessionKey(user_id, room_name)
        path == get_lock_file_path(room_name)
        again == key \in DOMAIN local_sessions[p]
        r0 == [sessions |-> local_sessions[p], handles |-> lock_handles[p], fs |-> FS]
        r1 == IF again THEN ReleaseEffect(Registry(p), FS, room_name, user_id) ELSE r0
        h == NewHandle(r1.fs, t, user_id, room_name)
    IN /\ alive[p]
       /\ call[t].pc = "idle"
       /\ local_sessions' = [local_sessions EXCEPT ![p] = r1.sessions]
       /\ lock_handles' = [lock_handles EXCEPT ![p] = r1.handles]
       /\ FreeSlots(r1.fs, t, user_id, room_name) # {}
       /\ IF open_fails \/ ~CanOpen(r1.fs, path)
          THEN /\ SetFS(r1.fs)
               /\ call' = call
               /\ last' = Returned("acquire", t, room_name, user_id, FALSE, "open_error", again)
          ELSE /\ SetFS(OpenW(r1.fs, path, h))
               /\ call' = [call EXCEPT ![t] =
                     [pc |-> "poll", room_name |-> room_name, user_id |-> user_id,
                      timeout |-> timeout, start_time |-> now, fh |-> h, tried |-> FALSE,
                      reentrant |-> again]]
               /\ last' = last
       /\ UNCHANGED <<now, alive, session>>

\* how the write of the record can end: "ok", or an exception raised by
\* write/flush after truncate() ("ENOSPC": nothing stored; "partial": the
\* first part of the JSON text stored) or by fsync ("EIO": the bytes stored)
WriteOutcomes == {"ok", "ENOSPC", "partial", "EIO"}

\* what the file holds after a write that ended with outcome w
Written(w, info) ==
    IF w \in {"ok", "EIO"} THEN JsonDump(info)
    ELSE IF w = "partial" THEN [kind |-> "garbage", fields |-> <<>>]
    ELSE EmptyContent

\* a registration that forgets the handle (for measuring what the properties detect)
RegisterSessionOnly(r, f, key, info, h) ==
    [sessions |-> With(r.sessions, key, info), handles |-> r.handles, fs |-> f]

\* storing a handle under a key drops the file object stored there before,
\* which CPython then closes
Register(r, f, key, info, h) ==
    LET old == IF key \in DOMAIN r.handles THEN r.handles[key] ELSE NoHandle
    IN [sessions |-> With(r.sessions, key, info),
        handles |-> With(r.handles, key, h),
        fs |-> IF old # NoHandle /\ old # h THEN CloseHandle(f, old) ELSE f]

\* a loop condition that never ends the loop (for measuring what the properties detect)
BudgetNeverEnds(c, t) == TRUE

\* the loop condition; the first iteration follows start_time at once
TimeLeft(c, t) == ~c.tried \/ t - c.start_time < c.timeout

\* an iteration of the polling loop in which flock raises BlockingIOError
AcquireBlocked(t) ==
    LET c == call[t]
    IN /\ alive[ProcOf[t]]
       /\ c.pc = "poll"
       /\ TimeLeft(c, now)
       /\ ~FlockFree(FS, c.fh)
       /\ ~c.tried
       /\ call' = [call EXCEPT ![t].tried = TRUE]
       /\ UNCHANGED <<now, alive, dir, content, fd_inode, flock, local_sessions, lock_handles, session,
                    last>>

\* an iteration of the polling loop in which flock succeeds: the write of
\* session_info, the registration and return True, or the write error path.
\* late: the clock advances between the two datetime.now() reads.
AcquirePoll(t, write, late) ==
    LET p == ProcOf[t]
        c == call[t]
        key == SessionKey(c.user_id, c.room_name)
        t2 == IF late THEN now + 1 ELSE now
        info == SessionInfo(c.room_name, JobOf[t], c.user_id, PidOf[p], now, t2)
        locked == Flock(FS, c.fh)
    IN /\ alive[p]
       /\ c.pc = "poll"
       /\ TimeLeft(c, now)
       /\ FlockFree(FS, c.fh)
       /\ late => now < MaxTime
       /\ now' = t2
       /\ call' = [call EXCEPT ![t] = Idle]
       /\ IF write = "ok"
          THEN LET out == Register(Registry(p), WriteHandle(locked, c.fh, JsonDump(info)), key, info, c.fh)
               IN /\ SetFS(out.fs)
                  /\ local_sessions' = [local_sessions EXCEPT ![p] = out.sessions]
                  /\ lock_handles' = [lock_handles EXCEPT ![p] = out.handles]
                  /\ last' = Returned("acquire", t, c.room_name, c.user_id, TRUE, "acquired", c.reentrant)
          ELSE /\ SetFS(CloseHandle(WriteHandle(locked, c.fh, Written(write, info)), c.fh))
               /\ UNCHANGED <<local_sessions, lock_handles>>
               /\ last' = Returned("acquire", t, c.room_name, c.user_id, FALSE, "write_error", c.reentrant)
       /\ UNCHANGED <<alive, session>>

\* a diagnostic step that removes nothing (for measuring what the properties detect)
TimeoutKeepsAll(f, path) == "keep"

\* what the timeout path does with the file it finds: "unlink" or "keep"
TimeoutCleanup(f, path) ==
    IF ~PathExists(f, path) THEN "keep"
    ELSE IF ReadPath(f, path).kind \in {"empty", "blank", "garbage"} THEN "unlink"
    ELSE "keep"

\* the loop's budget is used up: close the handle, look at the file, return False
AcquireTimeout(t) ==
    LET p == ProcOf[t]
        c == call[t]
        path == get_lock_file_path(c.room_name)
        f1 == CloseHandle(FS, c.fh)
        f2 == IF TimeoutCleanup(f1, path) = "unlink" THEN Unlink(f1, path) ELSE f1
    IN /\ alive[p]
       /\ c.pc = "poll"
       /\ ~TimeLeft(c, now)
       /\ SetFS(f2)
       /\ call' = [call EXCEPT ![t] = Idle]
       /\ last' = [Returned("acquire", t, c.room_name, c.user_id, FALSE, "timeout", c.reentrant)
                   EXCEPT !.found = IF last = Unobserved THEN ""
                                    ELSE IF PathExists(f1, path) THEN ReadPath(f1, path).kind
                                    ELSE "absent"]
       /\ UNCHANGED <<now, alive, local_sessions, lock_handles, session>>

(* ----------------------------- inspection ------------------------------ *)
\* a kill that reaches every pid (for measuring what the properties detect)
KillReachesAll(pid, live) == "ok"

\* os.kill(pid, 0): "ok", or the errno it raises
KillProbe(pid, live) ==
    IF \E p \in Procs : PidOf[p] = pid /\ live[p] THEN "ok"
    ELSE IF pid \in ForeignPids THEN "EPERM"
    ELSE "ESRCH"

\* a probe that finds every pid running (for measuring what the properties detect)
ProbeAlwaysAlive(pid, live) == TRUE

\* _is_process_alive: every OSError, PermissionError included, reads as dead
is_process_alive(pid, live) == KillProbe(pid, live) = "ok"

\* the checks is_room_locked makes on the content of an existing lock file,
\* in the code's order; gives the log line of the branch taken
InspectLocked(c, t, live) ==
    IF c.kind = "empty" THEN "empty"
    ELSE IF c.kind = "blank" THEN "blank"
    ELSE IF c.kind = "garbage" THEN "corrupt"
    ELSE IF c.kind # "object" THEN "error"                \* .get: AttributeError
    ELSE LET text == IF "expires_at" \in DOMAIN c.fields THEN c.fields.expires_at
                     ELSE DefaultExpiresAt
         IN IF ~IsIso(text) THEN "error"                   \* fromisoformat: ValueError
            ELSE IF t > FromIso(text) THEN "expired"
            ELSE IF /\ "pid" \in DOMAIN c.fields
                    /\ c.fields.pid # 0
                    /\ ~is_process_alive(c.fields.pid, live) THEN "dead"
            ELSE "valid"

is_room_locked(t, room_name) ==
    LET p == ProcOf[t]
        path == get_lock_file_path(room_name)
        found == PathExists(FS, path)
        log == IF found THEN InspectLocked(ReadPath(FS, path), now, alive) ELSE "absent"
    IN /\ alive[p]
       /\ call[t].pc = "idle"
       /\ SetFS(IF found /\ log # "valid" THEN Unlink(FS, path) ELSE FS)
       /\ last' = Returned("isLocked", t, room_name, "", log = "valid", log,
                           IF found THEN ReadPath(FS, path) ELSE EmptyContent)
       /\ UNCHANGED <<now, alive, local_sessions, lock_handles, call, session>>

\* what cleanup_expired_locks decides for one lock file: the counter it
\* increments ("cleaned", "corrupted" or "none") and whether it removes the file
InspectSweep(c, t, live) ==
    IF c.kind \in {"empty", "blank", "garbage"} THEN "corrupted"
    ELSE IF c.kind # "object" THEN "corrupted"            \* AttributeError: outer except
    ELSE LET text == IF "expires_at" \in DOMAIN c.fields THEN c.fields.expires_at
                     ELSE DefaultExpiresAt
         IN IF ~IsIso(text) THEN "corrupted"               \* ValueError
            ELSE IF t > FromIso(text) THEN "cleaned"
            ELSE IF /\ "pid" \in DOMAIN c.fields
                    /\ c.fields.pid # 0
                    /\ ~is_process_alive(c.fields.pid, live) THEN "cleaned"
            ELSE "none"

RECURSIVE UnlinkAll(_, _)
UnlinkAll(f, paths) ==
    IF paths = {} THEN f
    ELSE LET q == CHOOSE x \in paths : TRUE
         IN UnlinkAll(Unlink(f, q), paths \ {q})

cleanup_expired_locks(t) ==
    LET p == ProcOf[t]
        files == {q \in Paths : PathExists(FS, q)}
        verdict == [q \in files |-> InspectSweep(ReadPath(FS, q), now, alive)]
        removed == {q \in files : verdict[q] # "none"}
    IN /\ alive[p]
       /\ call[t].pc = "idle"
       /\ SetFS(UnlinkAll(FS, removed))
       /\ last' = [Returned("sweep", t, <<>>, "", None, "swept",
                            [q \in files |-> ReadPath(FS, q)])
                   EXCEPT !.cleaned = IF last = Unobserved THEN 0
                                      ELSE Cardinality({q \in files : verdict[q] = "cleaned"}),
                          !.corrupted = IF last = Unobserved THEN 0
                                        ELSE Cardinality({q \in files : verdict[q] = "corrupted"})]
       /\ UNCHANGED <<now, alive, local_sessions, lock_handles, call, session>>

\* get_active_sessions: a copy of the session registry of the caller's process
get_active_sessions(t) ==
    LET p == ProcOf[t]
    IN /\ alive[p]
       /\ call[t].pc = "idle"
       /\ last' = Returned("sessions", t, <<>>, "", local_sessions[p], "listed", <<>>)
       /\ UNCHANGED <<now, alive, dir, content, fd_inode, flock, local_sessions, lock_handles, call,
                    session>>

(* --------------------------- clock and crashes ------------------------- *)
Tick ==
    /\ now < MaxTime
    /\ now' = now + 1
    /\ UNCHANGED <<alive, dir, content, fd_inode, flock, local_sessions, lock_handles, call, session,
                 last>>

RECURSIVE CloseAll(_, _)
CloseAll(f, hs) ==
    IF hs = {} THEN f
    ELSE LET h == CHOOSE x \in hs : TRUE
         IN CloseAll(CloseHandle(f, h), hs \ {h})

\* the process dies: the kernel closes its descriptors, its memory is gone
Crash(p) ==
    /\ alive[p]
    /\ alive' = [alive EXCEPT ![p] = FALSE]
    /\ SetFS(CloseAll(FS, {h \in Handles : ProcOf[h[1]] = p /\ fd_inode[h] # 0}))
    /\ local_sessions' = [local_sessions EXCEPT ![p] = <<>>]
    /\ lock_handles' = [lock_handles EXCEPT ![p] = <<>>]
    /\ call' = [t \in Tasks |-> IF ProcOf[t] = p THEN Idle ELSE call[t]]
    /\ UNCHANGED <<now, session, last>>

(* --------------------------- session runtime --------------------------- *)
\* entrypoint(ctx) of the voice agent, run by task t for room r; the manager
\* calls it awaits are the manager's own actions, taken while the runtime
\* stands at the call, and last carries their return value back
SetSession(t, s) ==
    /\ session' = [session EXCEPT ![t] = s]
    /\ UNCHANGED <<now, alive, dir, content, fd_inode, flock, local_sessions, lock_handles, call, last>>

\* how an awaited step of the runtime can end
Outcomes == {"ok", "raise", "cancel"}

\* the job starts: user id extraction, get_room_session_manager(), and the
\* call of acquire_room_lock
EntryStart(t, r) ==
    /\ alive[ProcOf[t]]
    /\ session[t].pc = "none"
    /\ call[t].pc = "idle"
    /\ SetSession(t, [NoSession EXCEPT !.pc = "acquire", !.room_name = r, !.seen = last.calls])

\* the awaited manager call of the runtime has not returned yet
Awaiting(t) == last.calls = session[t].seen

\* a runtime that goes on whatever acquire returned (for measuring what the properties detect)
EntryIgnoresResult(t) ==
    /\ session[t].pc = "acquire"
    /\ last.calls = session[t].seen + 1
    /\ last.op = "acquire" /\ last.task = t
    /\ SetSession(t, [session[t] EXCEPT !.pc = "connect", !.held = last.ret, !.seen = last.calls])

\* acquire_room_lock returned: without the lock the runtime returns at once
EntryAcquired(t) ==
    /\ session[t].pc = "acquire"
    /\ last.calls = session[t].seen + 1
    /\ last.op = "acquire" /\ last.task = t
    /\ SetSession(t, [session[t] EXCEPT !.pc = IF last.ret THEN "connect" ELSE "done",
                                        !.held = last.ret,
                                        !.seen = last.calls])

\* await ctx.connect(), outside every try block
EntryConnect(t, outcome) ==
    /\ session[t].pc = "connect"
    /\ SetSession(t, [session[t] EXCEPT !.pc = IF outcome = "ok" THEN "init" ELSE "done",
                                        !.connected = outcome = "ok"])

\* the providers, the AgentSession and session.start, inside the outer try
EntryInit(t, outcome) ==
    /\ session[t].pc = "init"
    /\ SetSession(t, [session[t] EXCEPT !.pc = IF outcome = "ok" THEN "loop" ELSE "outer_finally"])

\* an iteration that does not count itself (for measuring what the properties detect)
EntryHeartbeatUncounted(t, conn, users) ==
    LET s == session[t]
        empty == IF users THEN 0 ELSE s.empty_room_count + 1
    IN /\ s.pc = "loop"
       /\ s.heartbeat_count < max_heartbeats
       /\ SetSession(t, [s EXCEPT !.empty_room_count = IF conn = "disconnected" THEN @ ELSE empty,
                                  !.pc = IF conn = "disconnected" \/ empty >= EmptyRoomLimit
                                         THEN "inner_finally" ELSE "loop"])

\* while not shutdown_event.is_set() and heartbeat_count < max_heartbeats;
\* nothing sets the event
LoopContinues(s) == s.heartbeat_count < max_heartbeats

\* what the room shows at a check: its connection state (reading it may
\* raise) and whether a participant other than the agent is there
RoomStates == {"connected", "disconnected", "error"}

\* one iteration of the monitoring loop: the sleep, the connection check and
\* the participant check; a break leads to the inner finally
EntryHeartbeat(t, conn, users) ==
    LET s == session[t]
        empty == IF users THEN 0 ELSE s.empty_room_count + 1
    IN /\ s.pc = "loop"
       /\ LoopContinues(s)
       /\ SetSession(t, [s EXCEPT !.heartbeat_count = @ + 1,
                                  !.empty_room_count = IF conn = "disconnected" THEN @ ELSE empty,
                                  !.pc = IF conn = "disconnected" \/ empty >= EmptyRoomLimit
                                         THEN "inner_finally" ELSE "loop"])

\* the monitoring loop inside the inner try ends without a break: its
\* condition fails, or the sleep raises or is cancelled; the inner finally
\* follows in each case
EntryLoop(t, outcome) ==
    /\ session[t].pc = "loop"
    /\ outcome = "ok" => ~LoopContinues(session[t])
    /\ SetSession(t, [session[t] EXCEPT !.pc = "inner_finally"])

\* release_room_lock returned to the inner or to the outer finally block
EntryReleased(t) ==
    /\ session[t].pc \in {"inner_finally", "outer_finally"}
    /\ last.calls = session[t].seen + 1
    /\ last.op = "release" /\ last.task = t
    /\ SetSession(t, [session[t] EXCEPT !.pc = IF @ = "inner_finally" THEN "outer_finally" ELSE "done",
                                        !.releases = @ + 1,
                                        !.seen = last.calls])

(* ---------------------------- specifications --------------------------- *)
\* the calls of the tasks TS on the rooms RS, each task under its own user id
Acquire(TS, RS) ==
    \/ \E t \in TS, r \in RS, to \in Timeouts, bad \in BOOLEAN :
          AcquireOpen(t, r, UserOf[t], to, bad)
    \/ \E t \in TS : AcquireBlocked(t)
    \/ \E t \in TS, w \in WriteOutcomes, late \in BOOLEAN : AcquirePoll(t, w, late)
    \/ \E t \in TS : AcquireTimeout(t)

Release(TS, RS) == \E t \in TS, r \in RS : release_room_lock(t, r, UserOf[t])

Inspect(TS, RS) ==
    \/ \E t \in TS, r \in RS : is_room_locked(t, r)
    \/ \E t \in TS : cleanup_expired_locks(t)

\* three workers, two of them in one process, on one room
Next ==
    \/ Acquire(Tasks, {RoomAB})
    \/ Release(Tasks, {RoomAB})
    \/ Inspect(Tasks, {RoomAB})
    \/ Tick

Spec == Init /\ [][Next]_vars

\* two workers in two processes on one room, with the history kept
Pair == {"t1", "t3"}

NextObserved ==
    \/ Acquire(Pair, {RoomAB})
    \/ Release(Pair, {RoomAB})
    \/ Inspect(Pair, {RoomAB})
    \/ Tick

SpecObserved == InitObserved /\ [][NextObserved]_vars

\* two workers on every room
NextRooms ==
    \/ Acquire(Pair, Rooms)
    \/ Release(Pair, Rooms)
    \/ Tick

SpecRooms == Init /\ [][NextRooms]_vars

\* acquire calls only, none for a key the process holds: no release happens
NextAcquire ==
    \/ \E t \in Tasks, to \in Timeouts, bad \in BOOLEAN :
          /\ SessionKey(UserOf[t], RoomAB) \notin DOMAIN local_sessions[ProcOf[t]]
          /\ AcquireOpen(t, RoomAB, UserOf[t], to, bad)
    \/ \E t \in Tasks : AcquireBlocked(t)
    \/ \E t \in Tasks, w \in WriteOutcomes, late \in BOOLEAN : AcquirePoll(t, w, late)
    \/ \E t \in Tasks : AcquireTimeout(t)
    \/ Tick

SpecAcquire == Init /\ [][NextAcquire]_vars

\* lock files left in the directory by earlier runs, by crashed holders or by
\* whatever wrote into them
StaleRecord(pid, expires_at) ==
    JsonDump([room_name |-> RoomAB, job_id |-> "job0", user_id |-> "u1", pid |-> pid,
              acquired_at |-> IsoFormat(1), expires_at |-> expires_at])

StaleContents ==
    {EmptyContent,
     [kind |-> "blank", fields |-> <<>>],
     [kind |-> "garbage", fields |-> <<>>],
     [kind |-> "nonobject", fields |-> <<>>],
     JsonDump([room_name |-> RoomAB, job_id |-> "job0", user_id |-> "u1",
               acquired_at |-> IsoFormat(1), expires_at |-> IsoFormat(MaxTime)]),
     JsonDump([room_name |-> RoomAB, job_id |-> "job0", user_id |-> "u1", pid |-> PidOf["p2"],
               acquired_at |-> IsoFormat(1)]),
     StaleRecord(PidOf["p2"], "yesterday")}
    \cup {StaleRecord(pid, IsoFormat(e)) : pid \in {PidOf["p2"]} \cup ForeignPids \cup DeadPids,
                                           e \in {1, MaxTime}}

NoFile == [kind |-> "nofile", fields |-> <<>>]
PathAB == get_lock_file_path(RoomAB)
PathC == get_lock_file_path(RoomC)

InitStale ==
    /\ InitManagers
    /\ last = NoCall
    /\ \E c1, c2 \in StaleContents \cup {NoFile} :
          LET i1 == IF c1 = NoFile THEN 0 ELSE 1
              i2 == IF c2 = NoFile THEN 0 ELSE i1 + 1
          IN /\ dir = [q \in Paths |-> IF q = PathAB THEN i1 ELSE IF q = PathC THEN i2 ELSE 0]
             /\ content = [i \in Inodes |-> IF i = i1 THEN c1 ELSE IF i = i2 THEN c2
                                            ELSE EmptyContent]

NextStale ==
    \/ Inspect({"t1"}, {RoomAB, RoomC})
    \/ Crash("p2")
    \/ Tick

SpecStale == InitStale /\ [][NextStale]_vars

\* the simple contention sequence: A acquires, B acquires and gives up, A
\* releases, B acquires again; no environment fault
InitScenario ==
    /\ InitManagers
    /\ EmptyDir
    /\ \E a \in Tasks, b \in Tasks, r \in Rooms :
          /\ a # b
          /\ last = [NoCall EXCEPT !.plan = [a |-> a, b |-> b, room_name |-> r]]

NextScenario ==
    LET a == last.plan.a
        b == last.plan.b
        r == last.plan.room_name
    IN \/ /\ last.calls = 0
          /\ \/ \E to \in Timeouts : AcquireOpen(a, r, UserOf[a], to, FALSE)
             \/ \E late \in BOOLEAN : AcquirePoll(a, "ok", late)
       \/ /\ last.calls \in {1, 3}
          /\ \/ \E to \in Timeouts : AcquireOpen(b, r, UserOf[b], to, FALSE)
             \/ AcquireBlocked(b)
             \/ \E late \in BOOLEAN : AcquirePoll(b, "ok", late)
             \/ AcquireTimeout(b)
       \/ /\ last.calls = 2
          /\ release_room_lock(a, r, UserOf[a])
       \/ Tick

SpecScenario == InitScenario /\ [][NextScenario]_vars

\* a holder dies: two workers in two processes contend for a room, and the
\* process of the second is killed while its registry has the room
NextCrash ==
    \/ Acquire(Pair, {RoomAB})
    \/ Inspect({"t1"}, {RoomAB})
    \/ /\ SessionKey(UserOf["t3"], RoomAB) \in DOMAIN local_sessions["p2"]
       /\ Crash("p2")
    \/ Tick

SpecCrash == InitObserved /\ [][NextCrash]_vars

\* two workers acquire and release one room; the unlink of a release can fail
NextRelease ==
    \/ Acquire(Pair, {RoomAB})
    \/ Release(Pair, {RoomAB})
    \/ \E t \in Pair : release_unlink_error(t, RoomAB, UserOf[t])
    \/ Tick

SpecRelease == InitObserved /\ [][NextRelease]_vars

\* one job of the voice agent: a session runtime from its start to its exit
SessionTask == "t1"

\* the room RoomAB is free, or a worker of the other process holds it
HolderTask == "t3"

InitSession ==
    LET h == <<HolderTask, UserOf[HolderTask], RoomAB, 1>>
        key == SessionKey(UserOf[HolderTask], RoomAB)
        info == SessionInfo(RoomAB, JobOf[HolderTask], UserOf[HolderTask],
                            PidOf[ProcOf[HolderTask]], 1, 1)
        f0 == [dir |-> [q \in Paths |-> 0], content |-> [i \in Inodes |-> EmptyContent],
               fd |-> [x \in Handles |-> 0], flock |-> [i \in Inodes |-> NoHandle]]
        f1 == WriteHandle(Flock(OpenW(f0, PathAB, h), h), h, JsonDump(info))
    IN /\ last = [NoCall EXCEPT !.plan = [a |-> SessionTask, b |-> HolderTask, room_name |-> RoomAB]]
       /\ \/ InitManagers /\ EmptyDir
          \/ /\ now = 1
             /\ alive = [p \in Procs |-> TRUE]
             /\ call = [t \in Tasks |-> Idle]
             /\ session = [t \in Tasks |-> NoSession]
             /\ dir = f1.dir /\ content = f1.content /\ fd_inode = f1.fd /\ flock = f1.flock
             /\ local_sessions = [p \in Procs |-> IF p = ProcOf[HolderTask] THEN key :> info ELSE <<>>]
             /\ lock_handles = [p \in Procs |-> IF p = ProcOf[HolderTask] THEN key :> h ELSE <<>>]

NextSession ==
    LET t == SessionTask
        r == session[t].room_name
    IN \/ \E room \in Rooms : EntryStart(t, room)
       \/ /\ session[t].pc = "acquire"
          /\ Awaiting(t)
          /\ \/ \E to \in Timeouts, bad \in BOOLEAN : AcquireOpen(t, r, UserOf[t], to, bad)
             \/ AcquireBlocked(t)
             \/ \E w \in WriteOutcomes, late \in BOOLEAN : AcquirePoll(t, w, late)
             \/ AcquireTimeout(t)
       \/ EntryAcquired(t)
       \/ \E o \in Outcomes : EntryConnect(t, o)
       \/ \E o \in Outcomes : EntryInit(t, o)
       \/ \E c \in RoomStates, users \in BOOLEAN : EntryHeartbeat(t, c, users)
       \/ \E o \in Outcomes : EntryLoop(t, o)
       \/ /\ session[t].pc \in {"inner_finally", "outer_finally"}
          /\ Awaiting(t)
          /\ release_room_lock(t, r, UserOf[t])
       \/ EntryReleased(t)
       \/ Tick

SpecSession == InitSession /\ [][NextSession]_vars

\* the same job under an event loop that keeps running the runtime
SpecSessionFair == SpecSession /\ WF_vars(NextSession)

\* two workers acquire and release one room while the clock runs; a call
\* starts only while the clock can still reach the end of its budget.  The
\* event loop resumes a polling call after each sleep, and time passes.
StepCall(t) ==
    \/ AcquireBlocked(t)
    \/ \E w \in WriteOutcomes, late \in BOOLEAN : AcquirePoll(t, w, late)
    \/ AcquireTimeout(t)

NextLive ==
    \/ \E t \in Pair, to \in Timeouts, bad \in BOOLEAN :
          /\ now + to <= MaxTime
          /\ AcquireOpen(t, RoomAB, UserOf[t], to, bad)
    \/ \E t \in Pair : StepCall(t)
    \/ Release(Pair, {RoomAB})
    \/ Tick

SpecLive ==
    /\ InitObserved
    /\ [][NextLive]_vars
    /\ WF_vars(Tick)
    /\ \A t \in Pair : WF_vars(StepCall(t))

\* a race for a room nobody holds: calls start only while no registry has
\* the room, which an earlier run may have left a file for; no call releases
InitRace ==
    /\ InitManagers
    /\ last = [NoCall EXCEPT !.plan = [a |-> "", b |-> "", room_name |-> RoomAB]]
    /\ \E c \in {NoFile, EmptyContent, StaleRecord(PidOf["p2"], IsoFormat(MaxTime))} :
          /\ dir = [q \in Paths |-> IF q = PathAB /\ c # NoFile THEN 1 ELSE 0]
          /\ content = [i \in Inodes |-> IF i = 1 /\ c # NoFile THEN c ELSE EmptyContent]

NextRace ==
    \/ \E t \in Tasks, to \in Timeouts, bad \in BOOLEAN :
          /\ last.calls < MaxCalls
          /\ \A p \in Procs : \A k \in DOMAIN local_sessions[p] :
                local_sessions[p][k].room_name # RoomAB
          /\ AcquireOpen(t, RoomAB, UserOf[t], to, bad)
    \/ \E t \in Tasks : StepCall(t)
    \/ Tick

SpecRace == InitRace /\ [][NextRace]_vars

\* a holder that never releases: a worker of the second process acquired the
\* room one hour before the clock's first value and keeps running; the workers
\* of the first process call acquire, nobody inspects or sweeps
Contenders == {"t1", "t2"}

InitHeld ==
    LET h == <<HolderTask, UserOf[HolderTask], RoomAB, 1>>
        key == SessionKey(UserOf[HolderTask], RoomAB)
        info == SessionInfo(RoomAB, JobOf[HolderTask], UserOf[HolderTask],
                            PidOf[ProcOf[HolderTask]], 0, 0)
        f0 == [dir |-> [q \in Paths |-> 0], content |-> [i \in Inodes |-> EmptyContent],
               fd |-> [x \in Handles |-> 0], flock |-> [i \in Inodes |-> NoHandle]]
        f1 == WriteHandle(Flock(OpenW(f0, PathAB, h), h), h, JsonDump(info))
    IN /\ last = NoCall
       /\ now = 1
       /\ alive = [p \in Procs |-> TRUE]
       /\ call = [t \in Tasks |-> Idle]
       /\ session = [t \in Tasks |-> NoSession]
       /\ dir = f1.dir /\ content = f1.content /\ fd_inode = f1.fd /\ flock = f1.flock
       /\ local_sessions = [p \in Procs |-> IF p = ProcOf[HolderTask] THEN key :> info ELSE <<>>]
       /\ lock_handles = [p \in Procs |-> IF p = ProcOf[HolderTask] THEN key :> h ELSE <<>>]

NextHeld ==
    \/ Acquire(Contenders, {RoomAB})
    \/ Tick

SpecHeld == InitHeld /\ [][NextHeld]_vars

\* two workers of one process acquire and release one room, each under its
\* own user id, and list the sessions of their process
NextRegistry ==
    \/ Acquire(Contenders, {RoomAB})
    \/ Release(Contenders, {RoomAB})
    \/ \E t \in Contenders : get_active_sessions(t)
    \/ Tick

SpecRegistry == InitObserved /\ [][NextRegistry]_vars

(* -------------------------------- claims ------------------------------- *)
\* the registry entries for room r: the acquire calls that returned True and
\* were not released since
Granted(r) ==
    UNION {{<<p, k>> : k \in {x \in DOMAIN local_sessions[p] : local_sessions[p][x].room_name = r}}
           : p \in Procs}

\* C1: among acquire calls for one room with no release in between, at most
\* one returns True.  (Under SpecAcquire no call is ever released.)
C1_AtMostOneAcquireTrue == \A r \in Rooms : Cardinality(Granted(r)) <= 1

\* the processes holding room r: a registry entry whose expires_at has not
\* passed, in a process that runs
LiveHolders(r) ==
    {p \in Procs : /\ alive[p]
                   /\ \E k \in DOMAIN local_sessions[p] :
                         /\ local_sessions[p][k].room_name = r
                         /\ now <= FromIso(local_sessions[p][k].expires_at)}

\* C2: in every reachable state each room has at most one process whose
\* successful acquire is neither released nor past its expires_at.
C2_OneHolderPerRoom == \A r \in Rooms : Cardinality(LiveHolders(r)) <= 1

\* C3: in the contention sequence A's acquire returns True, B's acquire
\* issued while A holds returns False through the timeout path, A's release
\* follows, and B's next acquire returns True.
C3_ContentionSequence ==
    LET a == last.plan.a
        b == last.plan.b
    IN /\ last.calls = 1 => last.op = "acquire" /\ last.task = a /\ last.ret
       /\ last.calls = 2 => last.op = "acquire" /\ last.task = b /\ ~last.ret
                            /\ last.log = "timeout"
       /\ last.calls = 3 => last.op = "release" /\ last.task = a /\ last.log = "released"
       /\ last.calls = 4 => last.op = "acquire" /\ last.task = b /\ last.ret

C3_Witness ==
    /\ last.calls = 4
    /\ last.ret
    /\ SessionKey(UserOf[last.plan.b], last.plan.room_name)
          \in DOMAIN local_sessions[ProcOf[last.plan.b]]

\* C4: rooms whose sanitized names differ never block each other: open
\* handles of two such rooms never share a file, and a polling acquire finds
\* the advisory lock free unless a holder of a room with the same sanitized
\* name has it.
C4_DifferentRoomsIndependent ==
    /\ \A h1 \in Handles, h2 \in Handles :
          fd_inode[h1] # 0 /\ fd_inode[h1] = fd_inode[h2]
             => SafeRoomName(h1[3]) = SafeRoomName(h2[3])
    /\ \A t \in Tasks :
          call[t].pc = "poll" /\ ~FlockFree(FS, call[t].fh)
             => \E p \in Procs : \E k \in DOMAIN lock_handles[p] :
                   /\ flock[fd_inode[call[t].fh]] = lock_handles[p][k]
                   /\ SafeRoomName(local_sessions[p][k].room_name)
                         = SafeRoomName(call[t].room_name)

\* two processes hold rooms with different sanitized names at the same time
C4_Witness ==
    \E p \in Procs, q \in Procs :
       /\ p # q
       /\ \E k \in DOMAIN lock_handles[p], j \in DOMAIN lock_handles[q] :
             /\ SafeRoomName(local_sessions[p][k].room_name)
                   # SafeRoomName(local_sessions[q][j].room_name)
             /\ flock[fd_inode[lock_handles[p][k]]] = lock_handles[p][k]
             /\ flock[fd_inode[lock_handles[q][j]]] = lock_handles[q][j]

\* C5 as stated: a second acquire for a (room, user) the process holds
\* returns True whenever no I/O fault occurs.
C5_ReentrantReturnsTrue ==
    last.op = "acquire" /\ last.seen = TRUE /\ last.log \notin {"open_error", "write_error"}
       => last.ret

\* C5 amended: the second acquire releases the first lock before it opens the
\* file, so while it polls the key is in neither registry and the advisory
\* lock it may wait for is never one of its own process; when it returns True
\* the registry has the key again, with the one handle the task has open,
\* holding the advisory lock.
C5_ReentrantReleasesFirst ==
    /\ \A t \in Tasks :
          call[t].pc = "poll" /\ call[t].reentrant
             => LET key == SessionKey(call[t].user_id, call[t].room_name)
                    holder == flock[fd_inode[call[t].fh]]
                IN /\ key \notin DOMAIN local_sessions[ProcOf[t]]
                   /\ key \notin DOMAIN lock_handles[ProcOf[t]]
                   /\ holder # NoHandle => ProcOf[holder[1]] # ProcOf[t]
    /\ last.op = "acquire" /\ last.seen = TRUE /\ last.ret /\ call[last.task].pc = "idle"
          => LET p == ProcOf[last.task]
                 key == SessionKey(last.user_id, last.room_name)
             IN /\ key \in DOMAIN local_sessions[p]
                /\ key \in DOMAIN lock_handles[p]
                /\ flock[fd_inode[lock_handles[p][key]]] = lock_handles[p][key]
                /\ \A k \in Slots :
                      LET h == <<last.task, last.user_id, last.room_name, k>>
                      IN fd_inode[h] # 0 => h = lock_handles[p][key]

C5_Witness ==
    /\ last.op = "acquire"
    /\ last.seen = TRUE
    /\ last.ret
    /\ call[last.task].pc = "idle"
    /\ SessionKey(last.user_id, last.room_name) \in DOMAIN lock_handles[ProcOf[last.task]]

\* C6: an acquire that returns False through the timeout path leaves the
\* room as it was: the file of the holder (the registered handle that has the
\* advisory lock on the file linked at the room's path) is still linked
\* there with the record the holder wrote, and no registry changes.
C6_TimeoutLeavesResource ==
    [][\A t \in Tasks :
          AcquireTimeout(t) =>
             /\ UNCHANGED <<local_sessions, lock_handles>>
             /\ \A p \in Procs : \A k \in DOMAIN lock_handles[p] :
                   LET h == lock_handles[p][k]
                       path == get_lock_file_path(local_sessions[p][k].room_name)
                   IN fd_inode[h] # 0 /\ flock[fd_inode[h]] = h /\ dir[path] = fd_inode[h]
                         => /\ dir'[path] = fd_inode[h]
                            /\ content'[fd_inode[h]] = JsonDump(local_sessions[p][k])]_vars

\* C7: release by a process whose registries have no entry for (room, user)
\* changes neither the filesystem nor any registry.
C7_ReleaseNotHeldIsNoOp ==
    [][\A t \in Tasks, r \in Rooms :
          /\ release_room_lock(t, r, UserOf[t])
          /\ SessionKey(UserOf[t], r) \notin DOMAIN local_sessions[ProcOf[t]]
          /\ SessionKey(UserOf[t], r) \notin DOMAIN lock_handles[ProcOf[t]]
          => UNCHANGED <<dir, content, fd_inode, flock, local_sessions, lock_handles>>]_vars

\* the fields of a lock record
RequiredFields == {"room_name", "job_id", "user_id", "pid", "acquired_at", "expires_at"}

\* a file content that classifies as Valid at time t: a well-formed record with
\* every field, not yet at its expires_at, whose pid is a process that exists
ClassifiesValid(c, t, live) ==
    /\ c.kind = "object"
    /\ RequiredFields \subseteq DOMAIN c.fields
    /\ IsIso(c.fields.expires_at)
    /\ t < FromIso(c.fields.expires_at)
    /\ KillProbe(c.fields.pid, live) # "ESRCH"

\* C8: is_room_locked returns True exactly when the room's lock file exists
\* and classifies as Valid.
C8_LockedIffValid ==
    [][\A t \in Tasks, r \in Rooms :
          is_room_locked(t, r) =>
             (last'.ret <=> /\ PathExists(FS, get_lock_file_path(r))
                            /\ ClassifiesValid(ReadPath(FS, get_lock_file_path(r)), now, alive))]_vars

\* C9: on a lock file that is zero-length or holds non-JSON bytes,
\* is_room_locked returns False and removes the file, and
\* cleanup_expired_locks removes the file.
C9_CorruptFilesRemoved ==
    [][\A t \in Tasks :
          /\ \A r \in Rooms :
                LET path == get_lock_file_path(r)
                IN /\ is_room_locked(t, r)
                   /\ PathExists(FS, path)
                   /\ ReadPath(FS, path).kind \in {"empty", "garbage"}
                   => ~last'.ret /\ dir'[path] = 0
          /\ cleanup_expired_locks(t) =>
                \A q \in Paths :
                   PathExists(FS, q) /\ ReadPath(FS, q).kind \in {"empty", "garbage"}
                      => dir'[q] = 0]_vars

\* is_room_locked met non-JSON bytes, returned False and the file is gone
C9_Witness ==
    /\ last.op = "isLocked"
    /\ last.seen.kind = "garbage"
    /\ ~last.ret
    /\ dir[get_lock_file_path(last.room_name)] = 0

\* a record whose expires_at reads as a time before t
PastExpiry(c, t) ==
    /\ c.kind = "object"
    /\ "expires_at" \in DOMAIN c.fields
    /\ \E e \in 0..(t - 1) : c.fields.expires_at = IsoFormat(e)

\* C10: on a lock file whose expires_at is in the past, is_room_locked
\* returns False through the expiry branch and removes the file, and
\* cleanup_expired_locks removes the file, whatever the state of the pid in it.
C10_ExpiredBeforeLiveness ==
    [][\A t \in Tasks :
          /\ \A r \in Rooms :
                LET path == get_lock_file_path(r)
                IN /\ is_room_locked(t, r)
                   /\ PathExists(FS, path)
                   /\ PastExpiry(ReadPath(FS, path), now)
                   => ~last'.ret /\ last'.log = "expired" /\ dir'[path] = 0
          /\ cleanup_expired_locks(t) =>
                \A q \in Paths :
                   PathExists(FS, q) /\ PastExpiry(ReadPath(FS, q), now) => dir'[q] = 0]_vars

\* is_room_locked met an expired record of a running process and removed it
C10_Witness ==
    /\ last.op = "isLocked"
    /\ last.log = "expired"
    /\ ~last.ret
    /\ PastExpiry(last.seen, now)
    /\ last.seen.fields.pid = PidOf["p2"]
    /\ alive["p2"]
    /\ dir[get_lock_file_path(last.room_name)] = 0

\* a complete record whose expires_at reads as time t or later
CompleteUnexpired(c, t) ==
    /\ c.kind = "object"
    /\ RequiredFields \subseteq DOMAIN c.fields
    /\ \E e \in t..(MaxTime + LockTTL + 1) : c.fields.expires_at = IsoFormat(e)

\* C11: on a lock file holding a complete, unexpired record whose pid no
\* process has, is_room_locked returns False through the dead-process branch
\* and removes the file, and cleanup_expired_locks removes the file.
C11_OrphanRemoved ==
    [][\A t \in Tasks :
          /\ \A r \in Rooms :
                LET path == get_lock_file_path(r)
                IN /\ is_room_locked(t, r)
                   /\ PathExists(FS, path)
                   /\ CompleteUnexpired(ReadPath(FS, path), now)
                   /\ KillProbe(ReadPath(FS, path).fields.pid, alive) = "ESRCH"
                   => ~last'.ret /\ last'.log = "dead" /\ dir'[path] = 0
          /\ cleanup_expired_locks(t) =>
                \A q \in Paths :
                   /\ PathExists(FS, q)
                   /\ CompleteUnexpired(ReadPath(FS, q), now)
                   /\ KillProbe(ReadPath(FS, q).fields.pid, alive) = "ESRCH"
                   => dir'[q] = 0]_vars

\* is_room_locked met the unexpired record of a process that died and removed it
C11_Witness ==
    /\ last.op = "isLocked"
    /\ last.log = "dead"
    /\ ~last.ret
    /\ CompleteUnexpired(last.seen, now)
    /\ last.seen.fields.pid = PidOf["p2"]
    /\ ~alive["p2"]
    /\ dir[get_lock_file_path(last.room_name)] = 0

\* C12: once the holder's process has died, is_room_locked on the record it
\* left returns False and removes the file, and an acquire by the other
\* process whose first lock attempt comes after the death is never blocked,
\* never times out and, its write succeeding, returns True and registers.
C12_CrashRecovery ==
    [][~alive["p2"] =>
          /\ /\ is_room_locked("t1", RoomAB)
             /\ PathExists(FS, PathAB)
             /\ ReadPath(FS, PathAB).kind = "object"
             /\ ReadPath(FS, PathAB).fields.pid = PidOf["p2"]
             => ~last'.ret /\ dir'[PathAB] = 0
          /\ call["t1"].pc = "poll" /\ ~call["t1"].tried
             => /\ ~AcquireBlocked("t1")
                /\ ~AcquireTimeout("t1")
                /\ \A late \in BOOLEAN :
                      AcquirePoll("t1", "ok", late)
                         => /\ last'.op = "acquire" /\ last'.task = "t1" /\ last'.ret
                            /\ SessionKey(UserOf["t1"], RoomAB) \in DOMAIN local_sessions'["p1"]]_vars

\* is_room_locked found the record of the dead holder and returned False, and
\* the other process has its acquire under way
C12_Witness ==
    /\ ~alive["p2"]
    /\ last.op = "isLocked"
    /\ last.log = "dead"
    /\ ~last.ret
    /\ last.seen.fields.job_id = JobOf["t3"]
    /\ CompleteUnexpired(last.seen, now)
    /\ call["t1"].pc = "poll"
    /\ FlockFree(FS, call["t1"].fh)

\* C13: cleanup_expired_locks removes every lock file that does not classify
\* as Valid and leaves every Valid one linked with its content.
C13_SweepRemovesExactlyInvalid ==
    [][\A t \in Tasks :
          cleanup_expired_locks(t) =>
             \A q \in Paths :
                PathExists(FS, q) =>
                   IF ClassifiesValid(ReadPath(FS, q), now, alive)
                   THEN dir'[q] = dir[q] /\ content'[dir[q]] = content[dir[q]]
                   ELSE dir'[q] = 0]_vars

\* the status of a file content at time t: Empty, Corrupt (no well-formed
\* record with every field), Expired, OrphanedProcess or Valid
Classify(c, t, live) ==
    IF c.kind = "empty" THEN "Empty"
    ELSE IF ~(/\ c.kind = "object"
              /\ RequiredFields \subseteq DOMAIN c.fields
              /\ IsIso(c.fields.expires_at)) THEN "Corrupt"
    ELSE IF t >= FromIso(c.fields.expires_at) THEN "Expired"
    ELSE IF KillProbe(c.fields.pid, live) = "ESRCH" THEN "OrphanedProcess"
    ELSE "Valid"

\* C14: cleanup_expired_locks returns (cleanedCount, corruptCount): the
\* number of files that are Expired or OrphanedProcess and the number that
\* are Empty or Corrupt.
C14_SweepReturnsCounts ==
    [][\A t \in Tasks :
          cleanup_expired_locks(t) =>
             LET files == {q \in Paths : PathExists(FS, q)}
                 status == [q \in files |-> Classify(ReadPath(FS, q), now, alive)]
             IN last'.ret = <<Cardinality({q \in files : status[q] \in {"Expired", "OrphanedProcess"}}),
                              Cardinality({q \in files : status[q] \in {"Empty", "Corrupt"}})>>]_vars

\* C15: release by the holder returns normally with the advisory lock
\* released, the handle closed and no registry entry for (room, user); the
\* lock file of the room is absent unless its unlink failed, which the call
\* logs and does not raise.
C15_HolderReleaseCleansUp ==
    [][\A t \in Tasks, r \in Rooms :
          LET p == ProcOf[t]
              key == SessionKey(UserOf[t], r)
              path == get_lock_file_path(r)
          IN /\ key \in DOMAIN lock_handles[p]
             /\ (release_room_lock(t, r, UserOf[t]) \/ release_unlink_error(t, r, UserOf[t]))
             => /\ key \notin DOMAIN lock_handles'[p]
                /\ key \notin DOMAIN local_sessions'[p]
                /\ fd_inode'[lock_handles[p][key]] = 0
                /\ \A i \in Inodes : flock'[i] # lock_handles[p][key]
                /\ last'.op = "release" /\ last'.task = t /\ last'.ret = None
                /\ last'.log # "unlink_error" => dir'[path] = 0]_vars

\* the holder released: its handle is closed, its entry and the file are gone
C15_Witness ==
    /\ last.op = "release"
    /\ last.log = "released"
    /\ call[last.task].pc = "idle"
    /\ SessionKey(last.user_id, last.room_name) \notin DOMAIN lock_handles[ProcOf[last.task]]
    /\ \A k \in Slots : fd_inode[<<last.task, last.user_id, last.room_name, k>>] = 0
    /\ dir[get_lock_file_path(last.room_name)] = 0

\* C17: when the write of the record fails after flock succeeded, acquire
\* returns False with the handle closed, the advisory lock released and the
\* registries as they were.
C17_WriteErrorReleasesLock ==
    [][\A t \in Tasks, w \in WriteOutcomes \ {"ok"}, late \in BOOLEAN :
          AcquirePoll(t, w, late) =>
             /\ last'.op = "acquire" /\ last'.task = t /\ ~last'.ret
             /\ last'.log = "write_error"
             /\ fd_inode'[call[t].fh] = 0
             /\ \A i \in Inodes : flock'[i] # call[t].fh
             /\ call'[t].pc = "idle"
             /\ UNCHANGED <<local_sessions, lock_handles>>]_vars

\* an acquire ended in the write error path and its caller holds nothing
C17_Witness ==
    /\ last.op = "acquire"
    /\ last.log = "write_error"
    /\ ~last.ret
    /\ call[last.task].pc = "idle"
    /\ SessionKey(last.user_id, last.room_name) \notin DOMAIN lock_handles[ProcOf[last.task]]
    /\ \A k \in Slots : fd_inode[<<last.task, last.user_id, last.room_name, k>>] = 0

C18_PermissionDeniedIsAlive ==
    \A pid \in {PidOf[p] : p \in Procs} \cup ForeignPids \cup DeadPids :
       is_process_alive(pid, alive) <=> KillProbe(pid, alive) # "ESRCH"

C20_ReleaseExactlyOnce ==
    \A t \in Tasks :
       session[t].pc = "done" /\ session[t].held => session[t].releases = 1

\* C21: a session runtime whose acquire returned False never connects: a
\* runtime that stands at or past ctx.connect() got True from its own acquire,
\* and until its first release the registry of its process has the room; a
\* runtime that got False has exited without connecting.
C21_ConnectOnlyWithLock ==
    \A t \in Tasks :
       LET s == session[t]
       IN /\ s.connected \/ s.pc \in {"connect", "init", "loop", "inner_finally", "outer_finally"}
             => s.held
          /\ s.pc \in {"connect", "init", "loop"}
             => SessionKey(UserOf[t], s.room_name) \in DOMAIN local_sessions[ProcOf[t]]
          /\ s.pc \notin {"none", "acquire"} /\ ~s.held
             => s.pc = "done" /\ ~s.connected /\ s.releases = 0

\* the runtime met a held room, got False through the timeout path and exited
\* without connecting
C21_Witness ==
    /\ session[SessionTask].pc = "done"
    /\ ~session[SessionTask].held
    /\ ~session[SessionTask].connected
    /\ last.op = "acquire" /\ last.task = SessionTask /\ ~last.ret /\ last.log = "timeout"

\* C22: every acquire call terminates: a call in its polling loop returns,
\* whatever the other workers do, and once its budget has elapsed and it has
\* polled, its next step is the return.
C22_AcquireTerminates ==
    /\ \A t \in Pair : (call[t].pc = "poll") ~> (call[t].pc = "idle")
    /\ [][\A t \in Pair :
             /\ call[t].pc = "poll"
             /\ call[t].tried
             /\ now - call[t].start_time >= call[t].timeout
             /\ call'[t] # call[t]
             => /\ call'[t].pc = "idle"
                /\ last'.op = "acquire" /\ last'.task = t /\ last'.ret \in BOOLEAN]_vars

\* a call that found the room held has returned False through the timeout path
C22_Witness ==
    /\ last.op = "acquire"
    /\ last.log = "timeout"
    /\ ~last.ret
    /\ call[last.task].pc = "idle"
    /\ \E p \in Procs \ {ProcOf[last.task]} :
          SessionKey(UserOf["t3"], RoomAB) \in DOMAIN local_sessions[p]
             \/ SessionKey(UserOf["t1"], RoomAB) \in DOMAIN local_sessions[p]

C24_OnlyLockHolderWrites ==
    [][\A q \in Paths :
          /\ PathExists(FS, q)
          /\ flock[dir[q]] # NoHandle
          /\ fd_inode'[flock[dir[q]]] = dir[q]
          /\ flock'[dir[q]] = flock[dir[q]]
          => \/ content'[dir[q]] = content[dir[q]]
             \/ /\ last' # last
                /\ last'.op = "acquire" /\ last'.ret
                /\ flock[dir[q]] = lock_handles'[ProcOf[last'.task]][SessionKey(last'.user_id, last'.room_name)]]_vars

\* a complete record whose expires_at reads as exactly time t
ExpiresExactlyAt(c, t) ==
    /\ c.kind = "object"
    /\ RequiredFields \subseteq DOMAIN c.fields
    /\ c.fields.expires_at = IsoFormat(t)

\* C25: classification takes Expired before OrphanedProcess and Valid, with
\* Expired decided by now >= expires_at: on a record read exactly at
\* now = expires_at, is_room_locked returns False through the expiry branch
\* and removes the file, and cleanup_expired_locks removes the file.
C25_ExpiredAtBoundary ==
    [][\A t \in Tasks :
          /\ \A r \in Rooms :
                LET path == get_lock_file_path(r)
                IN /\ is_room_locked(t, r)
                   /\ PathExists(FS, path)
                   /\ ExpiresExactlyAt(ReadPath(FS, path), now)
                   => ~last'.ret /\ last'.log = "expired" /\ dir'[path] = 0
          /\ cleanup_expired_locks(t) =>
                \A q \in Paths :
                   PathExists(FS, q) /\ ExpiresExactlyAt(ReadPath(FS, q), now) => dir'[q] = 0]_vars

\* a JSON object that lacks a field of the lock record
LacksField(c) == c.kind = "object" /\ ~(RequiredFields \subseteq DOMAIN c.fields)

\* C26: a lock file whose content is a JSON object lacking a required field
\* is treated as Corrupt: is_room_locked returns False and removes it, and
\* cleanup_expired_locks removes it.
C26_MissingFieldIsCorrupt ==
    [][\A t \in Tasks :
          /\ \A r \in Rooms :
                LET path == get_lock_file_path(r)
                IN /\ is_room_locked(t, r)
                   /\ PathExists(FS, path)
                   /\ LacksField(ReadPath(FS, path))
                   => ~last'.ret /\ dir'[path] = 0
          /\ cleanup_expired_locks(t) =>
                \A q \in Paths :
                   PathExists(FS, q) /\ LacksField(ReadPath(FS, q)) => dir'[q] = 0]_vars

\* a content that does not decode to a lock record: empty, not JSON, JSON that
\* is not an object, an object lacking a field, or an unparseable expires_at
Undecodable(c) ==
    \/ c.kind # "object"
    \/ LacksField(c)
    \/ ~IsIso(c.fields.expires_at)

\* C27: on a lock file whose content does not decode to a lock record,
\* is_room_locked does not raise: it returns False and the file is removed;
\* cleanup_expired_locks does not raise: it returns and the file is removed.
C27_UndecodableCleanedUp ==
    [][\A t \in Tasks :
          /\ \A r \in Rooms :
                LET path == get_lock_file_path(r)
                IN /\ is_room_locked(t, r)
                   /\ PathExists(FS, path)
                   /\ Undecodable(ReadPath(FS, path))
                   => /\ last'.op = "isLocked" /\ last'.ret = FALSE
                      /\ dir'[path] = 0
          /\ cleanup_expired_locks(t) =>
                /\ last'.op = "sweep" /\ last'.ret = None
                /\ \A q \in Paths :
                      PathExists(FS, q) /\ Undecodable(ReadPath(FS, q)) => dir'[q] = 0]_vars

\* C28: an acquire that times out returns False, and its diagnostic step
\* removes the lock file it finds empty or not parseable and leaves a file
\* holding a parseable record linked with its content.
C28_TimeoutDiagnostic ==
    [][\A t \in Tasks :
          call[t].pc = "poll" /\ call'[t].pc = "idle" /\ last'.log = "timeout"
             => LET path == get_lock_file_path(call[t].room_name)
                IN /\ last'.op = "acquire" /\ last'.task = t /\ last'.ret = FALSE
                   /\ PathExists(FS, path) /\ ReadPath(FS, path).kind \in {"empty", "blank", "garbage"}
                         => dir'[path] = 0
                   /\ PathExists(FS, path) /\ ReadPath(FS, path).kind = "object"
                         => dir'[path] = dir[path] /\ content'[dir[path]] = content[dir[path]]]_vars

\* a call timed out on a file holding part of a record and removed it
C28_Witness ==
    /\ last.op = "acquire"
    /\ last.log = "timeout"
    /\ last.found = "garbage"
    /\ ~last.ret
    /\ call[last.task].pc = "idle"
    /\ dir[get_lock_file_path(last.room_name)] = 0

\* C29: a call that was blocked in its polling loop and then, the holder
\* having released, ends inside its budget without a write error returns
\* True, and then the lock file of the room exists at its path and holds the
\* record of the new holder.
C29_PollerTakesOver ==
    [][\A t \in Pair :
          /\ call[t].pc = "poll"
          /\ call[t].tried
          /\ call'[t].pc = "idle"
          /\ last'.log \notin {"timeout", "write_error"}
          => LET p == ProcOf[t]
                 key == SessionKey(call[t].user_id, call[t].room_name)
                 path == get_lock_file_path(call[t].room_name)
             IN /\ last'.op = "acquire" /\ last'.task = t /\ last'.ret
                /\ key \in DOMAIN local_sessions'[p]
                /\ dir'[path] # 0
                /\ content'[dir'[path]] = JsonDump(local_sessions'[p][key])]_vars

\* C30: an acquire that returns True has written a record with the pid of
\* its process, the caller's job id and user id, acquired_at = now and
\* expires_at = acquired_at + 1 hour into the file it locked, and has the
\* registry entry for (room, user) with that record and that handle; an
\* acquire whose write failed has added no entry.
C30_SuccessfulAcquireRecord ==
    [][\A t \in Tasks :
          call[t].pc = "poll" /\ call'[t].pc = "idle" /\ last'.op = "acquire" /\ last'.task = t
             => LET p == ProcOf[t]
                    c == call[t]
                    key == SessionKey(c.user_id, c.room_name)
                IN IF last'.ret
                   THEN /\ key \in DOMAIN local_sessions'[p]
                        /\ key \in DOMAIN lock_handles'[p]
                        /\ lock_handles'[p][key] = c.fh
                        /\ flock'[fd_inode'[c.fh]] = c.fh
                        /\ content'[fd_inode'[c.fh]] = JsonDump(local_sessions'[p][key])
                        /\ local_sessions'[p][key] =
                              [room_name |-> c.room_name, job_id |-> JobOf[t], user_id |-> c.user_id,
                               pid |-> PidOf[p], acquired_at |-> IsoFormat(now),
                               expires_at |-> IsoFormat(now + LockTTL)]
                   ELSE UNCHANGED <<local_sessions, lock_handles>>]_vars

\* every registry entry for room r is past its expires_at at time t
AllExpired(r, t) ==
    \A p \in Procs : \A k \in DOMAIN local_sessions[p] :
       local_sessions[p][k].room_name = r => t > FromIso(local_sessions[p][k].expires_at)

\* C31: once the holder's expires_at has passed, the lock no longer blocks
\* others: an acquire that starts after every registry entry of the room has
\* expired and meets no write error returns True, although the holder runs
\* and nobody has removed the file.
C31_ExpiredLockDoesNotBlock ==
    [][\A t \in Contenders :
          /\ call[t].pc = "poll"
          /\ call'[t].pc = "idle"
          /\ last'.op = "acquire" /\ last'.task = t
          /\ last'.log # "write_error"
          /\ AllExpired(call[t].room_name, call[t].start_time)
          => last'.ret]_vars

\* the registry entries of running processes whose expires_at has not passed
HeldUnexpired ==
    {<<p, k>> \in Procs \X UNION {DOMAIN local_sessions[q] : q \in Procs} :
        /\ alive[p]
        /\ k \in DOMAIN local_sessions[p]
        /\ now < FromIso(local_sessions[p][k].expires_at)}

\* C32: while a live process holds a room with an unexpired record, the lock
\* file of the room exists at its path and contains that holder's record.
C32_HolderFileIntact ==
    \A e \in HeldUnexpired :
       LET info == local_sessions[e[1]][e[2]]
           path == get_lock_file_path(info.room_name)
       IN PathExists(FS, path) /\ ReadPath(FS, path) = JsonDump(info)

\* C33: while a live process holds a room with an unexpired record,
\* is_room_locked on that room returns True, whichever process calls it.
C33_LockedWhileHeld ==
    [][\A t \in Tasks, r \in Rooms :
          /\ is_room_locked(t, r)
          /\ \E e \in HeldUnexpired : local_sessions[e[1]][e[2]].room_name = r
          => last'.ret = TRUE]_vars

\* C34: is_room_locked and cleanup_expired_locks never delete the lock file
\* of a live, unexpired holder: neither the file a registered holder has
\* locked, nor, between the truncate and the write of an acquire, the file the
\* acquiring call has open and finds free to lock.
C34_ReadersSpareHolderFile ==
    [][(\E t \in Tasks : cleanup_expired_locks(t) \/ \E r \in Rooms : is_room_locked(t, r))
          => /\ \A e \in HeldUnexpired :
                   LET h == lock_handles[e[1]][e[2]]
                       path == get_lock_file_path(local_sessions[e[1]][e[2]].room_name)
                   IN fd_inode[h] # 0 /\ dir[path] = fd_inode[h] => dir'[path] = dir[path]
             /\ \A t \in Tasks :
                   LET path == get_lock_file_path(call[t].room_name)
                   IN /\ call[t].pc = "poll"
                      /\ dir[path] = fd_inode[call[t].fh]
                      /\ flock[fd_inode[call[t].fh]] = NoHandle
                      => dir'[path] = dir[path]]_vars

\* C35: release removes only the lock file the releasing process acquired:
\* when the file at the room's path is not the one its registered handle has
\* open, and another process holds the room through that file, the release
\* leaves it linked.
C35_ReleaseSparesNewHolder ==
    [][\A t \in Tasks, r \in Rooms :
          LET p == ProcOf[t]
              key == SessionKey(UserOf[t], r)
              path == get_lock_file_path(r)
          IN /\ release_room_lock(t, r, UserOf[t])
             /\ key \in DOMAIN lock_handles[p]
             /\ PathExists(FS, path)
             /\ dir[path] # fd_inode[lock_handles[p][key]]
             /\ \E q \in Procs \ {p} : \E k \in DOMAIN lock_handles[q] :
                   /\ fd_inode[lock_handles[q][k]] = dir[path]
                   /\ flock[dir[path]] = lock_handles[q][k]
             => dir'[path] = dir[path]]_vars

\* the keys of the handles on which process p holds the advisory lock
LockedKeys(p) ==
    {SessionKey(h[2], h[3]) : h \in {x \in Handles : /\ ProcOf[x[1]] = p
                                                      /\ fd_inode[x] # 0
                                                      /\ flock[fd_inode[x]] = x}}

\* C36: in every state the two registries of a process have the same keys
\* and each key's handle is open and holds the exclusive advisory lock for
\* this process; get_active_sessions returns the session registry, whose keys
\* are exactly the locks the process holds.
C36_RegistriesAgree ==
    /\ [](\A p \in Procs :
            /\ DOMAIN local_sessions[p] = DOMAIN lock_handles[p]
            /\ \A k \in DOMAIN lock_handles[p] :
                  LET h == lock_handles[p][k]
                  IN /\ ProcOf[h[1]] = p
                     /\ fd_inode[h] # 0
                     /\ flock[fd_inode[h]] = h
            /\ DOMAIN local_sessions[p] = LockedKeys(p))
    /\ [][\A t \in Tasks :
             call[t].pc = "idle" /\ last'.op = "sessions" /\ last'.task = t /\ last' # last
                => /\ last'.ret = local_sessions[ProcOf[t]]
                   /\ DOMAIN last'.ret = LockedKeys(ProcOf[t])
                   /\ UNCHANGED <<local_sessions, lock_handles, dir, content, fd_inode, flock>>]_vars

\* a process holding a room has listed its sessions
C36_Witness ==
    /\ last.op = "sessions"
    /\ last.ret = local_sessions[ProcOf[last.task]]
    /\ DOMAIN last.ret # {}
    /\ DOMAIN last.ret = LockedKeys(ProcOf[last.task])

====
